---------------------------- MODULE Spec2Model ----------------------------
(***************************************************************************)
(* Restocker backend (src/index.js, src/model/User.js): the product        *)
(* catalog, the stock ledgers and the request handlers that change them.   *)
(*                                                                         *)
(* The state is what the document store holds (the Product and Stock       *)
(* collections) and, for every request in flight, the handler's position   *)
(* and the document it read.  A handler runs without interruption between  *)
(* two awaits, so one action is one such stretch of a handler together     *)
(* with the one store operation it awaits:                                 *)
(*   - <Handler>Start : validation of the request, then findOne;           *)
(*   - <Handler>Write : the branch on what findOne returned, then          *)
(*                      Model.create or document.save, then the response.  *)
(* Between the two, every other request may take its steps.                *)
(***************************************************************************)
EXTENDS Integers, Sequences, FiniteSets

(***************************************************************************)
(* Bounds of the model.                                                    *)
(***************************************************************************)
MaxReq == 2          \* requests handled over a whole run, after Init

Reqs == 1..MaxReq

(***************************************************************************)
(* Request parameters.                                                     *)
(***************************************************************************)
Users == {"u1", "u2"}
Products == {"p1", "p2"}

\* req.body.qty / req.body.usedQty as sent by the client
QtyInputs == {-1, 0, 5}
UsedQtyInputs == {0, 3, 5}

\* A date string as the client (or the generator) writes it: fmt is its
\* shape, "iso" for dddd-dd-dd, "us" for dd/dd/dddd, "empty" for "".
DateIn(f, y, m, d) == [fmt |-> f, y |-> y, m |-> m, d |-> d]
DateInputs ==
    { DateIn("iso", 2025, 1, 31),      \* "2025-01-31"
      DateIn("iso", 2025, 2, 30),      \* "2025-02-30": no such day
      DateIn("iso", 2025, 13, 1),      \* "2025-13-01": no such month
      DateIn("us", 2025, 1, 31),       \* "01/31/2025"
      DateIn("empty", 0, 0, 0) }       \* ""

\* req.body.name / description / measure of a product, "" when missing
NameInputs == {"", "Rice"}
DescriptionInputs == {"", "5kg bag"}
MeasureInputs == {"", "kg", "liter", "ton"}

VARIABLES
    stocks,      \* the Stock collection, in insertion order
    products,    \* the Product collection, in insertion order
    req,         \* req[r]: the request handled in slot r
    last         \* the request that was answered by the last step, if any

vars == <<stocks, products, req, last>>

-----------------------------------------------------------------------------
(***************************************************************************)
(* JavaScript and Mongoose conversions.                                    *)
(***************************************************************************)

\* !x for a number
Falsy(n) == n = 0

\* !s for a date string
FalsyDate(s) == s.fmt = "empty"

\* /^\d{4}-\d{2}-\d{2}$/.test(expiryDate)
DateRegexTest(s) == s.fmt = "iso"

IsLeap(y) == (y % 4 = 0 /\ y % 100 # 0) \/ y % 400 = 0

DaysInMonth(y, m) ==
    IF m = 2 THEN (IF IsLeap(y) THEN 29 ELSE 28)
    ELSE IF m \in {4, 6, 9, 11} THEN 30 ELSE 31

\* Does new Date(string) give a valid Date?  The engine accepts a month
\* 1..12 and a day 1..31 and rejects everything else.
DateParses(s) ==
    /\ s.fmt \in {"iso", "us"}
    /\ s.m \in 1..12
    /\ s.d \in 1..31

\* The calendar day new Date(string) denotes: a day past the end of its month
\* rolls over into the next month.
CastDate(s) ==
    IF s.d <= DaysInMonth(s.y, s.m)
    THEN [y |-> s.y, m |-> s.m, d |-> s.d]
    ELSE IF s.m = 12
         THEN [y |-> s.y + 1, m |-> 1, d |-> s.d - DaysInMonth(s.y, s.m)]
         ELSE [y |-> s.y, m |-> s.m + 1, d |-> s.d - DaysInMonth(s.y, s.m)]

-----------------------------------------------------------------------------
(***************************************************************************)
(* The Stock collection.  A document is                                    *)
(*   [userId, productId, stockDetail, v]                                   *)
(* with v Mongoose's version key __v, and a lot (stockDetailSchema) is     *)
(*   [id, expiryDate, qty, entry, orig]                                    *)
(* with entry the sequence of usedQty of its usage events.  orig is a      *)
(* history field, not stored by the program: the qty the lot was created   *)
(* with.                                                                   *)
(***************************************************************************)

RECURSIVE SumSeq(_)
SumSeq(s) == IF s = <<>> THEN 0 ELSE Head(s) + SumSeq(Tail(s))

\* The indexes of the Stock documents of (u, p)
StockDocsOf(u, p) ==
    { i \in 1..Len(stocks) : stocks[i].userId = u /\ stocks[i].productId = p }

Min(S) == CHOOSE x \in S : \A y \in S : x <= y

\* (mutant) a findOne whose filter names the user only
FindStockOfUser(u, p) ==
    LET S == { i \in 1..Len(stocks) : stocks[i].userId = u }
    IN  IF S = {} THEN 0 ELSE Min(S)

\* Stock.findOne({ userId, productId }): the first matching document in the
\* collection's order, 0 for null.
FindStock(u, p) ==
    IF StockDocsOf(u, p) = {} THEN 0 ELSE Min(StockDocsOf(u, p))

\* A lot id is a positive number, and it stands for the string that
\* _id.toString() gives as well (24 hex digits in lower case).  A stockId of
\* a request is a string: n > 0 is the string of lot id n, -n is another
\* spelling of the same id (its hex digits in upper case), 0 is no stockId.
\* Mongoose casts the stockId of a filter to an ObjectId, whatever the case
\* of its digits.
CastObjectId(stockId) == IF stockId < 0 THEN -stockId ELSE stockId

\* A stockId that is no ObjectId at all, such as "lot-7": a string that is
\* neither 24 hex digits nor 12 bytes.  It is written as a number that is
\* the id of no lot and the spelling of none.
MalformedStockId == -100

\* the cast of the filter's stockId throws (CastError)
CastFails(stockId) == stockId = MalformedStockId

HasLot(doc, lotId) == \E k \in 1..Len(doc.stockDetail) : doc.stockDetail[k].id = lotId

\* Stock.findOne({ userId, productId, stockDetail: { $elemMatch: { _id:
\* stockId } } }): the filter's stockId is cast to an ObjectId
FindStockWithLot(u, p, stockId) ==
    LET S == { i \in StockDocsOf(u, p) : HasLot(stocks[i], CastObjectId(stockId)) }
    IN  IF S = {} THEN 0 ELSE Min(S)

\* stock.stockDetail.find(item => item._id.toString() === stockId): the
\* position of the first lot whose id, as a string, is the stockId as it
\* was written, 0 for undefined.
LotPos(doc, stockId) ==
    LET S == { k \in 1..Len(doc.stockDetail) : doc.stockDetail[k].id = stockId }
    IN  IF S = {} THEN 0 ELSE Min(S)

\* What the handler holds after findOne: the document's _id (its index in
\* the collection) and a copy of it as it was read.
NoSnap == [at |-> 0]
Snap(coll, i) == IF i = 0 THEN NoSnap ELSE [at |-> i, doc |-> coll[i]]

\* A new lot subdocument of the input e: Mongoose keeps the _id of the input
\* when it has one (e.id # 0) and assigns a fresh one, id, when it has none;
\* it casts expiryDate to a Date and qty to a Number, and takes entry from
\* the input when the input has one.  The REST handlers pass neither _id
\* nor entry; the chat handler passes the generator's entry as it is.
NewLot(id, e) ==
    [id |-> IF e.id # 0 THEN e.id ELSE id,
     expiryDate |-> CastDate(e.expiryDate), qty |-> e.qty,
     entry |-> e.entry, orig |-> e.qty]

\* The lots made of the entries es, with fresh ids following n
NewLots(n, es) == [k \in 1..Len(es) |-> NewLot(n + k, es[k])]

\* Mongoose validation of the lots to write (stockDetailSchema): expiryDate
\* must cast to a Date.
LotsValid(es) == \A k \in 1..Len(es) : DateParses(es[k].expiryDate)


\* the ids of the lots stored
StoredLotIds ==
    UNION { { stocks[i].stockDetail[k].id : k \in 1..Len(stocks[i].stockDetail) } :
              i \in 1..Len(stocks) }

Max(S) == CHOOSE x \in S : \A y \in S : x >= y

\* The ids Mongoose gives the next lots follow LastLotId.  An ObjectId made
\* now differs from every id made before: from the ids of the lots stored,
\* and from id 1, which was made for the lot of the seeded ledger before the
\* run and is the id an answer of the generator can carry, whether or not
\* the store of the run holds that lot.
LastLotId == Max(StoredLotIds \cup {1})

\* Stock.create({ userId, productId, stockDetail: es })
StockCreated(u, p, es) ==
    Append(stocks, [userId |-> u, productId |-> p,
                    stockDetail |-> NewLots(LastLotId, es), v |-> 0])

\* stockDoc.stockDetail.push(...es); stockDoc.save(): Mongoose sends the
\* pushed lots as a $push on the document with the snapshot's _id and
\* increments __v; a $push is not conditioned on __v.
StockPushed(at, es) ==
    [stocks EXCEPT ![at].stockDetail = @ \o NewLots(LastLotId, es),
                   ![at].v = @ + 1]

\* (mutant) a save that is sent whatever the document's version is
UseVersionOkOff(at, doc) == TRUE

\* stock.save() after stockItem.qty and stockItem.entry were changed: the
\* update sets stockDetail.<pos>.qty to the new value, pushes the event on
\* stockDetail.<pos>.entry, and is conditioned on the __v that was read.
\* Does the condition hold?
UseVersionOk(at, doc) == stocks[at].v = doc.v

\* (mutant) a save that writes the one new event over the lot's events
UseSavedOver(at, pos, newQty, usedQty) ==
    [stocks EXCEPT ![at].stockDetail[pos].qty = newQty,
                   ![at].stockDetail[pos].entry = <<usedQty>>,
                   ![at].v = @ + 1]

\* (mutant) a save that takes a lot out of its ledger when nothing is left
UseSavedDropsEmpty(at, pos, newQty, usedQty) ==
    IF newQty = 0
    THEN [stocks EXCEPT ![at].stockDetail =
                           SubSeq(@, 1, pos - 1) \o SubSeq(@, pos + 1, Len(@)),
                        ![at].v = @ + 1]
    ELSE [stocks EXCEPT ![at].stockDetail[pos].qty = newQty,
                        ![at].stockDetail[pos].entry = Append(@, usedQty),
                        ![at].v = @ + 1]

UseSaved(at, pos, newQty, usedQty) ==
    [stocks EXCEPT ![at].stockDetail[pos].qty = newQty,
                   ![at].stockDetail[pos].entry = Append(@, usedQty),
                   ![at].v = @ + 1]

-----------------------------------------------------------------------------
(***************************************************************************)
(* The Product collection.  A document is [userId, allProducts, v] and a   *)
(* product (proSchema) is [name, description, measure].                    *)
(***************************************************************************)

\* validMeasures of the handlers
ValidMeasures ==
    {"kg", "g", "l", "ml", "liter", "Liter", "pcs", "box", "bag", "bottle",
     "can", "pack", "piece", "other"}

\* enum of proSchema.measure
SchemaMeasures ==
    {"kg", "g", "l", "ml", "pcs", "box", "bag", "bottle", "can", "pack",
     "piece", "other"}

\* !s for a string
FalsyStr(s) == s = ""

ProductDocsOf(u) == { i \in 1..Len(products) : products[i].userId = u }

\* (mutant) a findOne without a filter
FindAnyProduct(u) == IF products = <<>> THEN 0 ELSE 1

\* Product.findOne({ userId })
FindProduct(u) == IF ProductDocsOf(u) = {} THEN 0 ELSE Min(ProductDocsOf(u))

\* (mutant) a proSchema that validates nothing
ProductsValidOff(es) == TRUE

\* Mongoose validation of the products to write (proSchema): the three
\* fields are required and measure is in the enum.
ProductsValid(es) ==
    \A k \in 1..Len(es) :
        /\ es[k].name # ""
        /\ es[k].description # ""
        /\ es[k].measure \in SchemaMeasures

\* Product.create({ userId, allProducts: es })
ProductCreated(u, es) ==
    Append(products, [userId |-> u, allProducts |-> es, v |-> 0])

\* exist.allProducts.push(...es); exist.save()
ProductPushed(at, es) ==
    [products EXCEPT ![at].allProducts = @ \o es, ![at].v = @ + 1]

-----------------------------------------------------------------------------
(***************************************************************************)
(* Requests.  A slot is idle, holds a request in flight, or is done.       *)
(* last is the request answered by the step just taken, with its response; *)
(* a step that answers nothing leaves NoLast.                              *)
(***************************************************************************)
Idle == [pc |-> "idle"]
Done == [pc |-> "done"]
NoLast == [kind |-> "none"]

Request(kind, u, p, body) ==
    [pc |-> "start", kind |-> kind, userId |-> u, productId |-> p,
     body |-> body, snap |-> NoSnap]

\* The response: the HTTP status, the message, and the number the message
\* carries (an entry's position or a count), 0 when it carries none.
Answered(q, status, reply, n) ==
    [kind |-> q.kind, userId |-> q.userId, productId |-> q.productId,
     body |-> q.body, status |-> status, reply |-> reply, n |-> n]

\* Slots are taken in order.
CanStart(r) ==
    /\ req[r].pc = "idle"
    /\ r > 1 => req[r - 1].pc # "idle"

\* res.status(status).json(reply): the request in slot r is answered
RespondN(r, q, status, reply, n) ==
    /\ req' = [req EXCEPT ![r] = Done]
    /\ last' = Answered(q, status, reply, n)

Respond(r, q, status, reply) == RespondN(r, q, status, reply, 0)

\* res.status(status).json(...) of a listing: data is the sequence sent
RespondData(r, q, status, reply, data) ==
    /\ req' = [req EXCEPT ![r] = Done]
    /\ last' = [Answered(q, status, reply, Len(data)) EXCEPT !.body = data]

\* the handler in slot r awaits the store, holding what findOne returned
Await(r, q, snap) ==
    /\ req' = [req EXCEPT ![r] = [q EXCEPT !.pc = "found", !.snap = snap]]
    /\ last' = NoLast

InFlight(r, kind) == req[r].pc = "found" /\ req[r].kind = kind

-----------------------------------------------------------------------------
(***************************************************************************)
(* POST /:id/product/:productId/stock/add                                  *)
(***************************************************************************)

\* (mutant) the handler without its check of qty
QtyRejectedOff(qty) == FALSE

\* isNaN(qty) || qty <= 0
QtyRejected(qty) == qty <= 0

AddStockStart(r) ==
    /\ CanStart(r)
    /\ \E u \in Users, p \in Products, e \in DateInputs, n \in QtyInputs :
         LET q == Request("addStock", u, p, [expiryDate |-> e, qty |-> n])
         IN  IF FalsyDate(e) \/ Falsy(n)
             THEN Respond(r, q, 400, "Expiry date and quantity are required")
             ELSE IF QtyRejected(n)
             THEN Respond(r, q, 400, "Quantity must be a positive number")
             ELSE IF ~DateRegexTest(e)
             THEN Respond(r, q, 400, "Expiry date must be in YYYY-MM-DD format")
             ELSE Await(r, q, Snap(stocks, FindStock(u, p)))
    /\ UNCHANGED <<stocks, products>>

\* (mutant) a handler that saves the lots it read with the new lot behind
\* them, whatever the document holds by then
AddStockWriteFromRead(r) ==
    /\ InFlight(r, "addStock")
    /\ LET q == req[r]
           es == <<[expiryDate |-> q.body.expiryDate, qty |-> q.body.qty,
                    entry |-> <<>>, id |-> 0]>>
       IN  IF ~LotsValid(es)
           THEN /\ Respond(r, q, 500, "Failed to add stock")
                /\ UNCHANGED stocks
           ELSE IF q.snap.at = 0
           THEN /\ stocks' = StockCreated(q.userId, q.productId, es)
                /\ Respond(r, q, 201, "Stock added successfully")
           ELSE /\ stocks' = [stocks EXCEPT
                                ![q.snap.at].stockDetail =
                                    q.snap.doc.stockDetail \o NewLots(LastLotId, es),
                                ![q.snap.at].v = @ + 1]
                /\ Respond(r, q, 200, "Stock added successfully")
    /\ UNCHANGED products

AddStockWrite(r) ==
    /\ InFlight(r, "addStock")
    /\ LET q == req[r]
           es == <<[expiryDate |-> q.body.expiryDate, qty |-> q.body.qty,
                    entry |-> <<>>, id |-> 0]>>
       IN  IF ~LotsValid(es)
           THEN /\ Respond(r, q, 500, "Failed to add stock")
                /\ UNCHANGED stocks
           ELSE IF q.snap.at = 0
           THEN /\ stocks' = StockCreated(q.userId, q.productId, es)
                /\ Respond(r, q, 201, "Stock added successfully")
           ELSE /\ stocks' = StockPushed(q.snap.at, es)
                /\ Respond(r, q, 200, "Stock added successfully")
    /\ UNCHANGED products

(***************************************************************************)
(* POST /:id/product/:productId/stock/use                                  *)
(***************************************************************************)

\* isNaN(usedQty) || usedQty <= 0
UsedQtyRejected(usedQty) == usedQty <= 0

\* usedQty > stockItem.qty
ExceedsStock(usedQty, qty) == usedQty > qty

\* req.body.stockId: 0 for none, the ids in use, one id not in use, the
\* first id with its digits in upper case, and a string that is no ObjectId
StockIdInputs ==
    {0} \cup StoredLotIds \cup {LastLotId + 1} \cup {-1} \cup {MalformedStockId}

UseStockStart(r) ==
    /\ CanStart(r)
    /\ \E u \in Users, p \in Products, id \in StockIdInputs, n \in UsedQtyInputs :
         LET q == Request("useStock", u, p, [usedQty |-> n, stockId |-> id])
             at == FindStockWithLot(u, p, id)
         IN  IF Falsy(n) \/ Falsy(id)
             THEN Respond(r, q, 400, "Used quantity and stock ID are required")
             ELSE IF UsedQtyRejected(n)
             THEN Respond(r, q, 400, "Used quantity must be a positive number")
             ELSE IF CastFails(id)
             THEN Respond(r, q, 500, "Failed to use stock")
             ELSE IF at = 0
             THEN Respond(r, q, 404, "Stock not found")
             ELSE Await(r, q, Snap(stocks, at))
    /\ UNCHANGED <<stocks, products>>

UseStockWrite(r) ==
    /\ InFlight(r, "useStock")
    /\ LET q == req[r]
           doc == q.snap.doc
           pos == LotPos(doc, q.body.stockId)
           usedQty == q.body.usedQty
       IN  IF pos = 0
           THEN /\ Respond(r, q, 404, "Stock item not found")
                /\ UNCHANGED stocks
           ELSE IF ExceedsStock(usedQty, doc.stockDetail[pos].qty)
           THEN /\ Respond(r, q, 400, "Used quantity exceeds available stock")
                /\ UNCHANGED stocks
           ELSE IF ~UseVersionOk(q.snap.at, doc)
           THEN /\ Respond(r, q, 500, "Failed to use stock")
                /\ UNCHANGED stocks
           ELSE /\ stocks' = UseSaved(q.snap.at, pos,
                                      doc.stockDetail[pos].qty - usedQty, usedQty)
                /\ Respond(r, q, 200, "Stock used successfully")
    /\ UNCHANGED products

-----------------------------------------------------------------------------
(***************************************************************************)
(* POST /:id/product/add                                                   *)
(***************************************************************************)
AddProductStart(r) ==
    /\ CanStart(r)
    /\ \E u \in Users, nm \in NameInputs, ds \in DescriptionInputs,
          ms \in MeasureInputs :
         LET q == Request("addProduct", u, "",
                          [name |-> nm, description |-> ds, measure |-> ms])
         IN  IF FalsyStr(nm) \/ FalsyStr(ds) \/ FalsyStr(ms)
             THEN Respond(r, q, 400, "Name, description, and measure are required")
             ELSE IF ms \notin ValidMeasures
             THEN Respond(r, q, 400, "Invalid measure")
             ELSE Await(r, q, Snap(products, FindProduct(u)))
    /\ UNCHANGED <<stocks, products>>

AddProductWrite(r) ==
    /\ InFlight(r, "addProduct")
    /\ LET q == req[r]
           es == <<q.body>>
       IN  IF ~ProductsValid(es)
           THEN /\ Respond(r, q, 500, "Failed to add product")
                /\ UNCHANGED products
           ELSE IF q.snap.at = 0
           THEN /\ products' = ProductCreated(q.userId, es)
                /\ Respond(r, q, 201, "Product added successfully")
           ELSE /\ products' = ProductPushed(q.snap.at, es)
                /\ Respond(r, q, 200, "Product added successfully")
    /\ UNCHANGED stocks

(***************************************************************************)
(* GET /:id/product/:productId/stock                                       *)
(***************************************************************************)

\* (mutant) a listing of the first ledger of the collection, whosever it is
ListLotsOfAny(u, p) ==
    IF stocks = <<>> THEN <<>> ELSE stocks[1].stockDetail

\* the body of the response: stock.stockDetail, [] when there is no document
ListLots(u, p) ==
    IF FindStock(u, p) = 0 THEN <<>> ELSE stocks[FindStock(u, p)].stockDetail

\* findOne resolves and the handler answers in one stretch
GetStock(r) ==
    /\ CanStart(r)
    /\ \E u \in Users, p \in Products :
         RespondData(r, Request("getStock", u, p, <<>>), 200, "", ListLots(u, p))
    /\ UNCHANGED <<stocks, products>>

(***************************************************************************)
(* GET /:id/product                                                        *)
(***************************************************************************)

\* product.allProducts, [] when there is no document
ListProducts(u) ==
    IF FindProduct(u) = 0 THEN <<>> ELSE products[FindProduct(u)].allProducts

GetProducts(r) ==
    /\ CanStart(r)
    /\ \E u \in Users :
         RespondData(r, Request("getProducts", u, "", <<>>), 200, "", ListProducts(u))
    /\ UNCHANGED <<stocks, products>>

(***************************************************************************)
(* GET /:id/instock                                                        *)
(***************************************************************************)

\* instocks.map(stock => ({ productId, stockDetail })) of the documents of
\* user u among docs, in the collection's order
RECURSIVE StockWithProducts(_, _)
StockWithProducts(docs, u) ==
    IF docs = <<>> THEN <<>>
    ELSE IF Head(docs).userId = u
         THEN <<[productId |-> Head(docs).productId,
                 stockDetail |-> Head(docs).stockDetail]>>
              \o StockWithProducts(Tail(docs), u)
         ELSE StockWithProducts(Tail(docs), u)

\* res.status(200).json({ message, stockWithProducts }) and
\* res.status(200).json({ message, stockWithProducts, products }): the body
\* has the field products in the second only
RespondInstock(r, q, reply, body) ==
    /\ req' = [req EXCEPT ![r] = Done]
    /\ last' = [Answered(q, 200, reply, Len(body.stockWithProducts))
                  EXCEPT !.body = body]

\* Stock.find({ userId }), then the answer when nothing was found
GetInstockStart(r) ==
    /\ CanStart(r)
    /\ \E u \in Users :
         LET q == Request("instock", u, "", <<>>)
             instocks == StockWithProducts(stocks, u)
         IN  IF instocks = <<>>
             THEN RespondInstock(r, q, "No stock found", [stockWithProducts |-> <<>>])
             ELSE Await(r, q, [at |-> 1, docs |-> instocks])
    /\ UNCHANGED <<stocks, products>>

\* Product.findOne({ userId }), then the answer
GetInstockWrite(r) ==
    /\ InFlight(r, "instock")
    /\ LET q == req[r]
       IN  IF FindProduct(q.userId) = 0
           THEN RespondInstock(r, q, "No product found", [stockWithProducts |-> <<>>])
           ELSE RespondInstock(r, q, "Stock found",
                               [stockWithProducts |-> q.snap.docs,
                                products |-> ListProducts(q.userId)])
    /\ UNCHANGED <<stocks, products>>

-----------------------------------------------------------------------------
(***************************************************************************)
(* POST /chat/ai.  The generator's answer is represented by what the       *)
(* handler decodes from it: aiData, with                                   *)
(*   intent : aiData.intent, "" when there is none;                        *)
(*   isArray: Array.isArray(aiData.data);                                  *)
(*   data   : the entries of aiData.data;                                  *)
(*   isObject: typeof aiData === 'object' and aiData is not null.          *)
(* The text itself is represented by its shape, which is what the decode   *)
(* tiers tell apart, together with the value written in it.                *)
(***************************************************************************)

\* entries of an add_stock answer: as the prompt asks for; with a qty of 0;
\* with usage events the generator made up
StockEntryAsked ==
    [expiryDate |-> DateIn("iso", 2025, 1, 31), qty |-> 5, entry |-> <<>>, id |-> 0]
StockEntryNoQty ==
    [expiryDate |-> DateIn("iso", 2025, 1, 31), qty |-> 0, entry |-> <<>>, id |-> 0]
StockEntryUsed ==
    [expiryDate |-> DateIn("iso", 2025, 1, 31), qty |-> 5, entry |-> <<3>>, id |-> 0]

\* entries whose expiryDate is not written as the prompt asks: "01/31/2025",
\* and "2025-13-01", which names no month
StockEntryUsDate ==
    [expiryDate |-> DateIn("us", 2025, 1, 31), qty |-> 5, entry |-> <<>>, id |-> 0]
StockEntryNoMonth ==
    [expiryDate |-> DateIn("iso", 2025, 13, 1), qty |-> 5, entry |-> <<>>, id |-> 0]

\* an entry that carries an _id, the one of the first lot of the seeded
\* ledger; id is 0 in the entries that carry none
StockEntryWithId ==
    [expiryDate |-> DateIn("iso", 2025, 1, 31), qty |-> 5, entry |-> <<>>, id |-> 1]

\* data arrays of an add_stock answer
ChatStockBatches ==
    { <<>>, <<StockEntryAsked>>, <<StockEntryNoQty>>, <<StockEntryUsed>>,
      <<StockEntryAsked, StockEntryAsked>>, <<StockEntryAsked, StockEntryNoQty>>,
      <<StockEntryNoQty, StockEntryAsked>> }

\* entries of an add_product answer: as the prompt asks for; with a measure
\* the prompt offers and proSchema does not have; with a measure nobody
\* has; without a name
ProductAsked == [name |-> "Rice", description |-> "5kg bag", measure |-> "kg"]
ProductLiter == [name |-> "Rice", description |-> "5kg bag", measure |-> "liter"]
ProductTon == [name |-> "Rice", description |-> "5kg bag", measure |-> "ton"]
ProductNoName == [name |-> "", description |-> "5kg bag", measure |-> "kg"]

\* data arrays of an add_product answer
ChatProductBatches ==
    { <<>>, <<ProductAsked>>, <<ProductLiter>>, <<ProductTon>>, <<ProductNoName>>,
      <<ProductAsked, ProductAsked>>, <<ProductAsked, ProductLiter>>,
      <<ProductAsked, ProductTon>>, <<ProductTon, ProductAsked>>,
      <<ProductAsked, ProductNoName>>, <<ProductNoName, ProductAsked>> }

AiData(intent, isArray, data) ==
    [intent |-> intent, isArray |-> isArray, data |-> data, isObject |-> TRUE]

\* what JSON.parse gives for a text such as null, 42 or "ok"
ScalarAi == [AiData("", FALSE, <<>>) EXCEPT !.isObject = FALSE]

\* aiData before the text is decoded
NoAi == AiData("", FALSE, <<>>)

\* answers with intent add_stock: the data arrays, and a data that is no
\* array
StockAiData ==
    { AiData("add_stock", TRUE, d) : d \in ChatStockBatches }
    \cup { AiData("add_stock", FALSE, <<>>) }

\* add_stock answers with the dates written otherwise
DatedStockAiData ==
    { AiData("add_stock", TRUE, d) :
        d \in { <<StockEntryUsDate>>, <<StockEntryNoMonth>>,
                <<StockEntryAsked, StockEntryNoMonth>> } }

\* an add_stock answer whose entry carries an _id
IdStockAiData == { AiData("add_stock", TRUE, <<StockEntryWithId>>) }

\* answers with intent add_product
ProductAiData ==
    { AiData("add_product", TRUE, d) : d \in ChatProductBatches }
    \cup { AiData("add_product", FALSE, <<>>) }

\* answers with intent chat, with an intent the handler does not know, and
\* with no intent
OtherAiData == { AiData(i, FALSE, <<>>) : i \in {"chat", "sell", ""} }

AiDataSet ==
    StockAiData \cup DatedStockAiData \cup IdStockAiData \cup ProductAiData
    \cup OtherAiData

\* The generator's text.  Its shape is one of
\*   "empty"  : no text at all;
\*   "json"   : a JSON object and nothing else;
\*   "fenced" : a JSON object between ```json and ```;
\*   "prose"  : a JSON object with prose before and after it;
\*   "comma"  : an object with a trailing comma, otherwise well formed;
\*   "quotes" : an object written with single quotes;
\*   "apostrophe" : an object with a trailing comma and an apostrophe
\*              inside one of its strings;
\*   "broken" : braces around something no repair makes JSON;
\*   "nojson" : prose without any brace;
\*   "scalar" : JSON that is no object (null, 42, "ok").
GenText(shape, ai) == [shape |-> shape, ai |-> ai]

\* The texts in which the generator gives the answers ais: every answer as
\* plain JSON; the chat answer in every shape a tier has to work on; one
\* add_stock answer with a trailing comma, one with a trailing comma and an
\* apostrophe, and one add_product answer inside prose; and the texts that
\* give no answer.
DecoratedTexts ==
    { GenText(sh, AiData("chat", FALSE, <<>>)) :
        sh \in {"fenced", "prose", "comma", "quotes"} }
    \cup { GenText("comma", AiData("add_stock", TRUE, <<StockEntryAsked>>)),
            GenText("apostrophe", AiData("add_stock", TRUE, <<StockEntryUsDate>>)),
            GenText("prose", AiData("add_product", TRUE, <<ProductAsked>>)) }

GenTexts(ais) ==
    { GenText("json", ai) : ai \in ais }
    \cup { t \in DecoratedTexts : t.ai \in ais }
    \cup { GenText(sh, NoAi) : sh \in {"empty", "broken", "nojson"} }
    \cup { GenText("scalar", ScalarAi) }

\* aiText.replace(/```json|```/g, "").trim()
StripFences(t) == IF t.shape = "fenced" THEN [t EXCEPT !.shape = "json"] ELSE t

\* JSON.parse(text) does not throw
JsonParses(t) == t.shape \in {"json", "scalar"}

\* jsonText.match(/\{[\s\S]*\}/): is there a match, and the matched text
HasBraces(t) ==
    t.shape \in {"json", "prose", "comma", "quotes", "apostrophe", "broken"}
BraceMatch(t) == IF t.shape = "prose" THEN [t EXCEPT !.shape = "json"] ELSE t

\* (mutant) a repair that repairs nothing
CleanedJsonOff(t) == t

\* .replace(/,\s*}/g, '}').replace(/,\s*]/g, ']').replace(/'/g, '"')
CleanedJson(t) ==
    IF t.shape \in {"comma", "quotes"} THEN [t EXCEPT !.shape = "json"]
    ELSE IF t.shape = "apostrophe" THEN [t EXCEPT !.shape = "broken"]
    ELSE t

\* The decode tiers: tier is the tier that gave aiData, 0 when none did.
Decode(t) ==
    LET aiText == StripFences(t)
    IN  IF JsonParses(aiText) THEN [tier |-> 1, ai |-> aiText.ai]
        ELSE IF ~HasBraces(aiText) THEN [tier |-> 0, ai |-> NoAi]
        ELSE IF JsonParses(BraceMatch(aiText))
        THEN [tier |-> 2, ai |-> aiText.ai]
        ELSE IF JsonParses(CleanedJson(BraceMatch(aiText)))
        THEN [tier |-> 3, ai |-> aiText.ai]
        ELSE [tier |-> 0, ai |-> NoAi]

\* (mutant) a handler that dispatches whatever was decoded
StructureRejectedOff(ai) == FALSE

\* !aiData || typeof aiData !== 'object' || !aiData.intent
StructureRejected(ai) == ~ai.isObject \/ ai.intent = ""

\* (mutant) a handler that takes every request as one with a productId
HasProductIdOn(q) == TRUE

\* if (productId)
HasProductId(q) == q.productId # ""

\* The position of the first stock entry the handler rejects, 0 for none:
\* !entry.expiryDate || !entry.qty || isNaN(entry.qty) || entry.qty <= 0
StockEntryRejected(e) == FalsyDate(e.expiryDate) \/ Falsy(e.qty) \/ QtyRejected(e.qty)

FirstRejectedStock(es) ==
    LET S == { k \in 1..Len(es) : StockEntryRejected(es[k]) }
    IN  IF S = {} THEN 0 ELSE Min(S)

\* !product.name || !product.description || !product.measure
ProductEntryMissing(e) ==
    FalsyStr(e.name) \/ FalsyStr(e.description) \/ FalsyStr(e.measure)

\* The position of the first product entry the handler rejects, 0 for none
FirstRejectedProduct(es) ==
    LET S == { k \in 1..Len(es) :
                 ProductEntryMissing(es[k]) \/ es[k].measure \notin ValidMeasures }
    IN  IF S = {} THEN 0 ELSE Min(S)

\* req.body of the chat request; "" is a field that is missing
MessageInputs == {"", "add rice"}

\* process.env.GEMINI_API_KEY is set or not
ApiKeyInputs == BOOLEAN

ChatStart(r) ==
    /\ CanStart(r)
    /\ \E msg \in MessageInputs, u \in Users \cup {""}, p \in Products \cup {""},
          apiKey \in ApiKeyInputs :
         LET q == Request("chat", u, p,
                          [message |-> msg, text |-> "", tier |-> 0, ai |-> NoAi])
         IN  IF FalsyStr(msg)
             THEN Respond(r, q, 400, "Message is required")
             ELSE IF FalsyStr(u)
             THEN Respond(r, q, 400, "User ID is required")
             ELSE IF ~apiKey
             THEN Respond(r, q, 500, "AI service not configured")
             ELSE /\ req' = [req EXCEPT ![r] = [q EXCEPT !.pc = "gen"]]
                  /\ last' = NoLast
    /\ UNCHANGED <<stocks, products>>

\* intent add_stock of a request with a productId, up to findOne
ChatAddStock(r, q) ==
    LET es == q.body.ai.data
        bad == FirstRejectedStock(es)
    IN  IF ~q.body.ai.isArray
        THEN Respond(r, q, 200, "Invalid stock data format.")
        ELSE IF bad # 0
        THEN RespondN(r, q, 200, "Stock entry is invalid", bad)
        ELSE Await(r, q, Snap(stocks, FindStock(q.userId, q.productId)))

\* intent add_product, up to findOne
ChatAddProduct(r, q) ==
    LET es == q.body.ai.data
        bad == FirstRejectedProduct(es)
    IN  IF ~q.body.ai.isArray
        THEN Respond(r, q, 200, "Invalid product data format.")
        ELSE IF bad # 0
        THEN RespondN(r, q, 200,
                      IF ProductEntryMissing(es[bad])
                      THEN "Product is missing required fields"
                      ELSE "Product has invalid measure", bad)
        ELSE Await(r, q, Snap(products, FindProduct(q.userId)))

\* (mutant) a dispatch without the branches for the intent chat
ChatDispatchNoChat(r, q) ==
    IF StructureRejected(q.body.ai)
    THEN Respond(r, q, 200, "I had trouble processing your request.")
    ELSE CASE q.body.ai.intent = "add_stock" /\ HasProductId(q) -> ChatAddStock(r, q)
           [] q.body.ai.intent = "add_stock" /\ ~HasProductId(q) ->
                Respond(r, q, 200, "Please open the product page to add stock.")
           [] q.body.ai.intent = "add_product" -> ChatAddProduct(r, q)
           [] OTHER -> Respond(r, q, 200, "I didn't understand your request.")

\* The generator has answered and its text has been decoded to ai: the
\* handler checks it and dispatches on the intent.
ChatDispatch(r, q) ==
    IF StructureRejected(q.body.ai)
    THEN Respond(r, q, 200, "I had trouble processing your request.")
    ELSE IF HasProductId(q)
    THEN CASE q.body.ai.intent = "add_stock" -> ChatAddStock(r, q)
           [] q.body.ai.intent = "add_product" -> ChatAddProduct(r, q)
           [] q.body.ai.intent = "chat" -> Respond(r, q, 200, "aiData.reply")
           [] OTHER -> Respond(r, q, 200, "I didn't understand your request.")
    ELSE CASE q.body.ai.intent = "add_product" -> ChatAddProduct(r, q)
           [] q.body.ai.intent = "add_stock" ->
                Respond(r, q, 200, "Please open the product page to add stock.")
           [] q.body.ai.intent = "chat" -> Respond(r, q, 200, "aiData.reply")
           [] OTHER -> Respond(r, q, 200, "I didn't understand your request.")

\* axios.post has resolved with the text t of one of the answers: the
\* handler decodes it and goes on to the first store operation.
ChatReplyOf(r, answers) ==
    /\ req[r].pc = "gen"
    /\ \E t \in GenTexts(answers) :
         LET q == [req[r] EXCEPT !.body.text = t.shape,
                                  !.body.tier = Decode(t).tier]
         IN  IF t.shape = "empty"
             THEN Respond(r, q, 200, "I couldn't generate a response.")
             ELSE IF Decode(t).tier = 0
             THEN Respond(r, q, 200, "I had trouble understanding your request.")
             ELSE ChatDispatch(r, [q EXCEPT !.body.ai = Decode(t).ai])
    /\ UNCHANGED <<stocks, products>>

\* axios.post has rejected (no connection, a status outside 2xx): the outer
\* catch answers.
ChatGenFails(r) ==
    /\ req[r].pc = "gen"
    /\ Respond(r, req[r], 500, "Sorry, I encountered an error. Please try again later.")
    /\ UNCHANGED <<stocks, products>>

ChatReply(r) == ChatReplyOf(r, AiDataSet)

\* add_stock after findOne: Stock.create or push and save
ChatAddStockWrite(r) ==
    /\ InFlight(r, "chat")
    /\ req[r].body.ai.intent = "add_stock"
    /\ LET q == req[r]
           es == q.body.ai.data
       IN  IF ~LotsValid(es)
           THEN /\ Respond(r, q, 200, "Failed to add stock. Please try again.")
                /\ UNCHANGED stocks
           ELSE IF q.snap.at = 0
           THEN /\ stocks' = StockCreated(q.userId, q.productId, es)
                /\ RespondN(r, q, 200, "stock entry(ies) added successfully.", Len(es))
           ELSE /\ stocks' = StockPushed(q.snap.at, es)
                /\ RespondN(r, q, 200, "stock entry(ies) added successfully.", Len(es))
    /\ UNCHANGED products

\* add_product after findOne: Product.create or push and save
ChatAddProductWrite(r) ==
    /\ InFlight(r, "chat")
    /\ req[r].body.ai.intent = "add_product"
    /\ LET q == req[r]
           es == q.body.ai.data
       IN  IF ~ProductsValid(es)
           THEN /\ Respond(r, q, 200, "Failed to add product. Please try again.")
                /\ UNCHANGED products
           ELSE IF q.snap.at = 0
           THEN /\ products' = ProductCreated(q.userId, es)
                /\ RespondN(r, q, 200, "product(s) added successfully.", Len(es))
           ELSE /\ products' = ProductPushed(q.snap.at, es)
                /\ RespondN(r, q, 200, "product(s) added successfully.", Len(es))
    /\ UNCHANGED stocks

-----------------------------------------------------------------------------
(***************************************************************************)
(* The store fails.  Stock.create, Product.create or save rejects (the     *)
(* connection is lost, the write times out): nothing is written, and the   *)
(* catch block of the handler answers.  The handler calls the store once   *)
(* and does not call it again.                                             *)
(***************************************************************************)
AddStockFails(r) ==
    /\ InFlight(r, "addStock")
    /\ Respond(r, req[r], 500, "Failed to add stock")
    /\ UNCHANGED <<stocks, products>>

\* the handler reaches stock.save() only when its own checks passed
UseStockFails(r) ==
    /\ InFlight(r, "useStock")
    /\ LET pos == LotPos(req[r].snap.doc, req[r].body.stockId)
       IN  /\ pos # 0
           /\ ~ExceedsStock(req[r].body.usedQty, req[r].snap.doc.stockDetail[pos].qty)
    /\ Respond(r, req[r], 500, "Failed to use stock")
    /\ UNCHANGED <<stocks, products>>

AddProductFails(r) ==
    /\ InFlight(r, "addProduct")
    /\ Respond(r, req[r], 500, "Failed to add product")
    /\ UNCHANGED <<stocks, products>>

\* the inner catch of add_stock answers with res.json: the status is 200
ChatAddStockFails(r) ==
    /\ InFlight(r, "chat")
    /\ req[r].body.ai.intent = "add_stock"
    /\ Respond(r, req[r], 200, "Failed to add stock. Please try again.")
    /\ UNCHANGED <<stocks, products>>

\* the inner catch of add_product answers with res.json: the status is 200
ChatAddProductFails(r) ==
    /\ InFlight(r, "chat")
    /\ req[r].body.ai.intent = "add_product"
    /\ Respond(r, req[r], 200, "Failed to add product. Please try again.")
    /\ UNCHANGED <<stocks, products>>

StoreFails(r) ==
    \/ AddStockFails(r)
    \/ UseStockFails(r)
    \/ AddProductFails(r)
    \/ ChatAddStockFails(r)
    \/ ChatAddProductFails(r)

(***************************************************************************)
(* A read fails.  Stock.findOne, Stock.find or Product.findOne rejects in  *)
(* a handler that answers in the stretch of its read: the catch block of   *)
(* the handler answers.  (In the handlers that add, the read is followed   *)
(* by a write and the same catch answers both: AddStockFails and the       *)
(* like.)                                                                  *)
(***************************************************************************)

\* Stock.findOne of the consume request rejects, whether or not the store
\* holds the lot: the request passed the handler's checks of its body
UseStockFindFails(r) ==
    /\ CanStart(r)
    /\ \E u \in Users, p \in Products, id \in StockIdInputs, n \in UsedQtyInputs :
         /\ ~(Falsy(n) \/ Falsy(id))
         /\ ~UsedQtyRejected(n)
         /\ Respond(r, Request("useStock", u, p, [usedQty |-> n, stockId |-> id]),
                    500, "Failed to use stock")
    /\ UNCHANGED <<stocks, products>>

\* Stock.findOne of GET .../stock rejects
GetStockFails(r) ==
    /\ CanStart(r)
    /\ \E u \in Users, p \in Products :
         Respond(r, Request("getStock", u, p, <<>>), 500, "Failed to fetch stock data")
    /\ UNCHANGED <<stocks, products>>

\* Product.findOne of GET /:id/product rejects
GetProductsFails(r) ==
    /\ CanStart(r)
    /\ \E u \in Users :
         Respond(r, Request("getProducts", u, "", <<>>), 500, "Failed to fetch products")
    /\ UNCHANGED <<stocks, products>>

\* Stock.find of GET /:id/instock rejects
GetInstockFindFails(r) ==
    /\ CanStart(r)
    /\ \E u \in Users :
         Respond(r, Request("instock", u, "", <<>>), 500, "Failed to fetch stock data")
    /\ UNCHANGED <<stocks, products>>

\* Product.findOne of GET /:id/instock rejects
GetInstockFails(r) ==
    /\ InFlight(r, "instock")
    /\ Respond(r, req[r], 500, "Failed to fetch stock data")
    /\ UNCHANGED <<stocks, products>>

ReadFails(r) ==
    \/ UseStockFindFails(r)
    \/ GetStockFails(r)
    \/ GetProductsFails(r)
    \/ GetInstockFindFails(r)
    \/ GetInstockFails(r)

-----------------------------------------------------------------------------
\* The store a run starts from is empty, or holds what one earlier
\* POST .../stock/add of ("u1", "p1", "2025-01-31", 5) left in it.
SeedStocks ==
    <<[userId |-> "u1", productId |-> "p1", v |-> 0,
       stockDetail |-> <<[id |-> 1, expiryDate |-> [y |-> 2025, m |-> 1, d |-> 31],
                          qty |-> 5, entry |-> <<>>, orig |-> 5]>>]>>

\* The ledger that a POST .../stock/add of ("u1", "p1", "2025-01-31", 7) and
\* a POST .../stock/use of 2 of that lot left in the store.
SeedUsedStocks ==
    <<[userId |-> "u1", productId |-> "p1", v |-> 1,
       stockDetail |-> <<[id |-> 1, expiryDate |-> [y |-> 2025, m |-> 1, d |-> 31],
                          qty |-> 5, entry |-> <<2>>, orig |-> 7]>>]>>

\* ... and a catalog that is absent, or holds what one earlier
\* POST /u1/product/add of ("Rice", "5kg bag", "kg") left in it.
SeedProducts ==
    <<[userId |-> "u1", v |-> 0,
       allProducts |-> <<[name |-> "Rice", description |-> "5kg bag",
                          measure |-> "kg"]>>]>>

InitReq ==
    /\ req = [r \in Reqs |-> Idle]
    /\ last = NoLast

Init ==
    /\ stocks \in {<<>>, SeedStocks}
    /\ products \in {<<>>, SeedProducts}
    /\ InitReq

Next ==
    \/ \E r \in Reqs : AddStockStart(r)
    \/ \E r \in Reqs : AddStockWrite(r)
    \/ \E r \in Reqs : UseStockStart(r)
    \/ \E r \in Reqs : UseStockWrite(r)
    \/ \E r \in Reqs : AddProductStart(r)
    \/ \E r \in Reqs : AddProductWrite(r)
    \/ \E r \in Reqs : ChatStart(r)
    \/ \E r \in Reqs : ChatReply(r)
    \/ \E r \in Reqs : ChatGenFails(r)
    \/ \E r \in Reqs : ChatAddStockWrite(r)
    \/ \E r \in Reqs : ChatAddProductWrite(r)
    \/ \E r \in Reqs : GetStock(r)
    \/ \E r \in Reqs : GetProducts(r)
    \/ \E r \in Reqs : GetInstockStart(r)
    \/ \E r \in Reqs : GetInstockWrite(r)
    \/ \E r \in Reqs : AddStockFails(r)
    \/ \E r \in Reqs : UseStockFails(r)
    \/ \E r \in Reqs : AddProductFails(r)
    \/ \E r \in Reqs : ChatAddStockFails(r)
    \/ \E r \in Reqs : ChatAddProductFails(r)
    \/ \E r \in Reqs : UseStockFindFails(r)
    \/ \E r \in Reqs : GetStockFails(r)
    \/ \E r \in Reqs : GetProductsFails(r)
    \/ \E r \in Reqs : GetInstockFindFails(r)
    \/ \E r \in Reqs : GetInstockFails(r)

\* The whole program.
Spec == Init /\ [][Next]_vars

(***************************************************************************)
(* The handlers of the two collections share no state: a Stock handler     *)
(* reads and writes only the Stock collection, a Product handler only the  *)
(* Product collection.  SpecStock runs the requests that reach the Stock   *)
(* collection, SpecCatalog those that reach the Product collection, both   *)
(* with a store that answers every operation.                              *)
(***************************************************************************)
InitStock ==
    /\ stocks \in {<<>>, SeedStocks}
    /\ products = SeedProducts
    /\ InitReq

NextStock ==
    \/ \E r \in Reqs : AddStockStart(r)
    \/ \E r \in Reqs : AddStockWrite(r)
    \/ \E r \in Reqs : UseStockStart(r)
    \/ \E r \in Reqs : UseStockWrite(r)
    \/ \E r \in Reqs : ChatStart(r)
    \/ \E r \in Reqs : ChatReplyOf(r, StockAiData \cup OtherAiData)
    \/ \E r \in Reqs : ChatGenFails(r)
    \/ \E r \in Reqs : ChatAddStockWrite(r)

SpecStock == InitStock /\ [][NextStock]_vars

InitCatalog ==
    /\ stocks = SeedStocks
    /\ products \in {<<>>, SeedProducts}
    /\ InitReq

NextCatalog ==
    \/ \E r \in Reqs : AddProductStart(r)
    \/ \E r \in Reqs : AddProductWrite(r)
    \/ \E r \in Reqs : ChatStart(r)
    \/ \E r \in Reqs : ChatReplyOf(r, ProductAiData \cup OtherAiData)
    \/ \E r \in Reqs : ChatGenFails(r)
    \/ \E r \in Reqs : ChatAddProductWrite(r)

SpecCatalog == InitCatalog /\ [][NextCatalog]_vars

(***************************************************************************)
(* SpecList runs the listings next to the requests that add lots and       *)
(* products.                                                               *)
(***************************************************************************)
NextList ==
    \/ \E r \in Reqs : AddStockStart(r)
    \/ \E r \in Reqs : AddStockWrite(r)
    \/ \E r \in Reqs : AddProductStart(r)
    \/ \E r \in Reqs : AddProductWrite(r)
    \/ \E r \in Reqs : GetStock(r)
    \/ \E r \in Reqs : GetProducts(r)
    \/ \E r \in Reqs : GetInstockStart(r)
    \/ \E r \in Reqs : GetInstockWrite(r)

SpecList == Init /\ [][NextList]_vars

(***************************************************************************)
(* SpecLedger runs the direct requests on the ledgers, adding lots and     *)
(* using them, in every interleaving.                                      *)
(***************************************************************************)
NextLedger ==
    \/ \E r \in Reqs : AddStockStart(r)
    \/ \E r \in Reqs : AddStockWrite(r)
    \/ \E r \in Reqs : UseStockStart(r)
    \/ \E r \in Reqs : UseStockWrite(r)

InitLedger ==
    /\ stocks \in {<<>>, SeedStocks, SeedUsedStocks}
    /\ products = SeedProducts
    /\ InitReq

SpecLedger == InitLedger /\ [][NextLedger]_vars

(***************************************************************************)
(* SpecAdd runs the requests that add: the direct add-lot request, and the *)
(* chat request with the generator giving the answers the prompt asks for. *)
(***************************************************************************)
AskedAiData ==
    { AiData("add_stock", TRUE, <<StockEntryAsked>>),
      AiData("add_stock", TRUE, <<StockEntryAsked, StockEntryAsked>>),
      AiData("add_product", TRUE, <<ProductAsked>>) }

NextAdd ==
    \/ \E r \in Reqs : AddStockStart(r)
    \/ \E r \in Reqs : AddStockWrite(r)
    \/ \E r \in Reqs : ChatStart(r)
    \/ \E r \in Reqs : ChatReplyOf(r, AskedAiData)
    \/ \E r \in Reqs : ChatGenFails(r)
    \/ \E r \in Reqs : ChatAddStockWrite(r)
    \/ \E r \in Reqs : ChatAddProductWrite(r)

SpecAdd == InitStock /\ [][NextAdd]_vars

(***************************************************************************)
(* SpecChat runs the chat requests alone, with the generator giving the    *)
(* answers the prompt asks for, an intent the handler does not know and no *)
(* intent, in the texts of every shape.                                    *)
(***************************************************************************)
NextChat ==
    \/ \E r \in Reqs : ChatStart(r)
    \/ \E r \in Reqs : ChatReplyOf(r, AskedAiData \cup OtherAiData)
    \/ \E r \in Reqs : ChatGenFails(r)
    \/ \E r \in Reqs : ChatAddStockWrite(r)
    \/ \E r \in Reqs : ChatAddProductWrite(r)

SpecChat == InitStock /\ [][NextChat]_vars

(***************************************************************************)
(* SpecUsers runs every kind of request of the two users on a store that   *)
(* holds the catalog and the ledger of the first user, the generator       *)
(* giving the answers the prompt asks for.                                 *)
(***************************************************************************)
InitUsers ==
    /\ stocks = SeedStocks
    /\ products = SeedProducts
    /\ InitReq

NextUsers ==
    \/ \E r \in Reqs : AddStockStart(r)
    \/ \E r \in Reqs : AddStockWrite(r)
    \/ \E r \in Reqs : UseStockStart(r)
    \/ \E r \in Reqs : UseStockWrite(r)
    \/ \E r \in Reqs : AddProductStart(r)
    \/ \E r \in Reqs : AddProductWrite(r)
    \/ \E r \in Reqs : ChatStart(r)
    \/ \E r \in Reqs : ChatReplyOf(r, AskedAiData)
    \/ \E r \in Reqs : ChatAddStockWrite(r)
    \/ \E r \in Reqs : ChatAddProductWrite(r)
    \/ \E r \in Reqs : GetStock(r)
    \/ \E r \in Reqs : GetProducts(r)
    \/ \E r \in Reqs : GetInstockStart(r)
    \/ \E r \in Reqs : GetInstockWrite(r)

SpecUsers == InitUsers /\ [][NextUsers]_vars

(***************************************************************************)
(* SpecChatLots runs the chat requests alone, with and without a           *)
(* productId, on the store that holds the ledger and the catalog of the    *)
(* first user, the generator giving every add_stock answer.                *)
(***************************************************************************)
NextChatLots ==
    \/ \E r \in Reqs : ChatStart(r)
    \/ \E r \in Reqs : ChatReplyOf(r, StockAiData)
    \/ \E r \in Reqs : ChatGenFails(r)
    \/ \E r \in Reqs : ChatAddStockWrite(r)

SpecChatLots == InitUsers /\ [][NextChatLots]_vars

(***************************************************************************)
(* SpecChatStock runs the chat requests alone, with the add_stock answers  *)
(* of the generator, their dates in every form and an entry with an _id.   *)
(***************************************************************************)
NextChatStock ==
    \/ \E r \in Reqs : ChatStart(r)
    \/ \E r \in Reqs :
         ChatReplyOf(r, StockAiData \cup DatedStockAiData \cup IdStockAiData
                          \cup OtherAiData)
    \/ \E r \in Reqs : ChatGenFails(r)
    \/ \E r \in Reqs : ChatAddStockWrite(r)

SpecChatStock == InitStock /\ [][NextChatStock]_vars

(***************************************************************************)
(* Progress.  A handler that awaits the store goes on when the store has   *)
(* answered, and the store answers every operation: the step after the     *)
(* await is taken if it stays possible.  Nothing of the kind holds for the *)
(* generator: it is a service outside the program, axios.post is called    *)
(* without a timeout, and the program has no step of its own that ends     *)
(* the wait.  So ChatReply and ChatGenFails are steps of the environment   *)
(* and carry no fairness; neither does the arrival of a request.           *)
(***************************************************************************)
StoreAnswers(r) ==
    \/ AddStockWrite(r)
    \/ UseStockWrite(r)
    \/ AddProductWrite(r)
    \/ ChatAddStockWrite(r)
    \/ ChatAddProductWrite(r)
    \/ GetInstockWrite(r)
    \/ StoreFails(r)
    \/ GetInstockFails(r)

SpecLive == Init /\ [][Next]_vars /\ \A r \in Reqs : WF_vars(StoreAnswers(r))

-----------------------------------------------------------------------------
(***************************************************************************)
(* The claims.                                                             *)
(***************************************************************************)

\* the lots of the store, each named by its document and its position
LotAt == { <<i, k>> : i \in 1..Len(stocks), k \in 1..(2 * MaxReq + 1) }
StoredLots == { x \in LotAt : x[2] <= Len(stocks[x[1]].stockDetail) }
LotOf(x) == stocks[x[1]].stockDetail[x[2]]

\* the request of slot r is answered by this step
Answers(r) == req[r].pc \in {"found", "gen"} /\ req'[r].pc = "done"

\* C1: in every reachable state, whatever add-lot, chat add_stock and
\* consume requests ran and however their steps interleaved, every lot of
\* every ledger has qty >= 0.
C1_QtyNeverNegative == \A x \in StoredLots : LotOf(x).qty >= 0

\* C1's case: a lot used up to qty 0 while a second consume request on the
\* same ledger is in flight.
C1_Witness ==
    /\ \E x \in StoredLots : LotOf(x).qty = 0 /\ LotOf(x).entry # <<>>
    /\ \E r \in Reqs : InFlight(r, "useStock")

\* C2 (as claimed): in every reachable state, for every lot, qty plus the
\* sum of usedQty over the lot's usage events equals the quantity the lot
\* was created with.
C2_Conservation ==
    \A x \in StoredLots : LotOf(x).qty + SumSeq(LotOf(x).entry) = LotOf(x).orig

\* C3 (as claimed): of two consume requests that ran concurrently on the
\* same lot, each for 60% of its qty, exactly one succeeds and the other
\* fails with the insufficient-stock error.  Stated at the step that answers
\* the second of them: the request read the lot with qty q and no less than
\* half of it to use, and since then the other request has used the same
\* amount, so the lot holds q - usedQty, less than what is asked.
C3_LoserGetsInsufficientStock ==
    [][\A r \in Reqs :
         (/\ InFlight(r, "useStock")
          /\ Answers(r)
          /\ LotPos(req[r].snap.doc, req[r].body.stockId) # 0
          /\ LET q == req[r]
                 pos == LotPos(q.snap.doc, q.body.stockId)
                 was == q.snap.doc.stockDetail[pos]
                 now == stocks[q.snap.at].stockDetail[pos]
             IN  /\ q.body.usedQty <= was.qty
                 /\ 2 * q.body.usedQty > was.qty
                 /\ now.qty = was.qty - q.body.usedQty
                 /\ now.entry = Append(was.entry, q.body.usedQty))
         => /\ last'.status = 400
            /\ last'.reply = "Used quantity exceeds available stock"]_vars

\* C4 (as claimed): at most one Stock document exists per (userId,
\* productId) in every reachable state.
C4_OneLedgerPerPair ==
    \A u \in Users, p \in Products : Cardinality(StockDocsOf(u, p)) <= 1

\* s is a prefix of t
IsPrefix(s, t) == Len(s) <= Len(t) /\ \A k \in 1..Len(s) : t[k] = s[k]

\* C5 (as claimed): at most one Product document exists per user in every
\* reachable state, and no step removes or replaces a product entry that is
\* in a catalog.
C5_OneCatalogPerUser ==
    /\ [](\A u \in Users : Cardinality(ProductDocsOf(u)) <= 1)
    /\ [][\A i \in 1..Len(products) :
            /\ i <= Len(products')
            /\ IsPrefix(products[i].allProducts, products'[i].allProducts)]_vars

\* C6 (as claimed): a request that found its aggregate missing and, when it
\* comes to create it, finds that another request has created it meanwhile,
\* appends instead: it reports success, and the one aggregate of its key
\* holds its entry after the entries that were there.
C6_LoserAppends ==
    [][\A r \in Reqs, u \in Users, p \in Products :
         /\ (/\ InFlight(r, "addStock") /\ Answers(r)
             /\ req[r].userId = u /\ req[r].productId = p
             /\ req[r].snap.at = 0
             /\ FindStock(u, p) # 0
             /\ DateParses(req[r].body.expiryDate))
            => /\ last'.status \in {200, 201}
               /\ Cardinality(StockDocsOf(u, p)') = 1
               /\ Len(ListLots(u, p)') = Len(ListLots(u, p)) + 1
               /\ IsPrefix(ListLots(u, p), ListLots(u, p)')
               /\ ListLots(u, p)'[Len(ListLots(u, p)')].qty = req[r].body.qty
         /\ (/\ InFlight(r, "addProduct") /\ Answers(r)
             /\ req[r].userId = u
             /\ req[r].snap.at = 0
             /\ FindProduct(u) # 0
             /\ ProductsValid(<<req[r].body>>))
            => /\ last'.status \in {200, 201}
               /\ Cardinality(ProductDocsOf(u)') = 1
               /\ products'[FindProduct(u)'].allProducts =
                    Append(products[FindProduct(u)].allProducts, req[r].body)]_vars

\* the position, in the ledger doc, of the lot that the stockId names: the
\* first lot whose id is the ObjectId of stockId, 0 when there is none
NamedLotPos(doc, stockId) == LotPos(doc, CastObjectId(stockId))

\* C7 (as claimed): a consume request whose usedQty is greater than the
\* qty of the lot it names (the qty of the lot in the ledger the request
\* read) fails with the insufficient-stock error, and its step changes no
\* ledger: the lot's qty and usage events are as before.
C7_ExceedingUseRejected ==
    [][\A r \in Reqs :
         (/\ InFlight(r, "useStock")
          /\ Answers(r)
          /\ NamedLotPos(req[r].snap.doc, req[r].body.stockId) # 0
          /\ req[r].body.usedQty >
               req[r].snap.doc.stockDetail[NamedLotPos(req[r].snap.doc, req[r].body.stockId)].qty)
         => /\ last'.status = 400
            /\ last'.reply = "Used quantity exceeds available stock"
            /\ stocks' = stocks]_vars

\* C7's case: a consume request for 3 was answered with the
\* insufficient-stock error, and the lot it named holds 2 with its one
\* earlier usage event.
C7_Witness ==
    /\ last.kind = "useStock"
    /\ last.status = 400
    /\ last.reply = "Used quantity exceeds available stock"
    /\ last.body.usedQty = 3
    /\ \E x \in StoredLots :
         /\ LotOf(x).id = last.body.stockId
         /\ LotOf(x).qty = 2
         /\ LotOf(x).entry = <<3>>

\* C8 (as claimed): a consume request with 0 < usedQty <= lot.qty, usedQty
\* = lot.qty included, succeeds, reduces that lot's qty by exactly usedQty and appends
\* exactly one usage event carrying usedQty, and changes nothing else in the
\* store.  lot.qty is one value for the request when the ledger is, as the
\* request saves, the ledger it read; a ledger written in between is a
\* version conflict of the store (C3 is about that case).
C8_UseWithinStock ==
    [][\A r \in Reqs :
         (/\ InFlight(r, "useStock")
          /\ Answers(r)
          /\ stocks[req[r].snap.at] = req[r].snap.doc
          /\ NamedLotPos(req[r].snap.doc, req[r].body.stockId) # 0
          /\ req[r].body.usedQty > 0
          /\ req[r].body.usedQty <=
               stocks[req[r].snap.at].stockDetail[NamedLotPos(req[r].snap.doc, req[r].body.stockId)].qty)
         => LET q == req[r]
                at == q.snap.at
                pos == NamedLotPos(q.snap.doc, q.body.stockId)
                was == stocks[at].stockDetail[pos]
                now == stocks'[at].stockDetail[pos]
            IN  /\ last'.status = 200
                /\ now.qty = was.qty - q.body.usedQty
                /\ now.entry = Append(was.entry, q.body.usedQty)
                /\ now.id = was.id /\ now.expiryDate = was.expiryDate
                /\ Len(stocks') = Len(stocks)
                /\ \A i \in 1..Len(stocks) :
                     /\ Len(stocks'[i].stockDetail) = Len(stocks[i].stockDetail)
                     /\ \A k \in 1..Len(stocks[i].stockDetail) :
                          <<i, k>> # <<at, pos>>
                            => stocks'[i].stockDetail[k] = stocks[i].stockDetail[k]]_vars

\* C8's case: a consume request for the whole qty of a lot, 5, has just
\* succeeded, and the lot holds 0 and the one usage event of 5.
C8_Witness ==
    /\ last.kind = "useStock"
    /\ last.status = 200
    /\ last.body.usedQty = 5
    /\ \E x \in StoredLots :
         /\ LotOf(x).id = last.body.stockId
         /\ LotOf(x).qty = 0
         /\ LotOf(x).entry = <<5>>
         /\ LotOf(x).orig = 5

\* the date string names a day of the calendar
IsCalendarDate(s) ==
    s.fmt = "iso" /\ s.m \in 1..12 /\ s.d \in 1..DaysInMonth(s.y, s.m)

\* C9 (as claimed): after a successful add-lot with a valid expiry date and
\* qty > 0, the lot listing of that (user, product) contains a lot with
\* that expiry and quantity, and every lot listed before the call is still
\* listed, with unchanged expiry, qty and usage events.
C9_AddedLotIsListed ==
    [][\A r \in Reqs, u \in Users, p \in Products :
         (/\ InFlight(r, "addStock")
          /\ Answers(r)
          /\ req[r].userId = u /\ req[r].productId = p
          /\ last'.status \in {200, 201}
          /\ IsCalendarDate(req[r].body.expiryDate))
         => /\ \E k \in 1..Len(ListLots(u, p)') :
                 /\ ListLots(u, p)'[k].expiryDate.y = req[r].body.expiryDate.y
                 /\ ListLots(u, p)'[k].expiryDate.m = req[r].body.expiryDate.m
                 /\ ListLots(u, p)'[k].expiryDate.d = req[r].body.expiryDate.d
                 /\ ListLots(u, p)'[k].qty = req[r].body.qty
                 /\ \A j \in 1..Len(ListLots(u, p)) :
                      ListLots(u, p)[j].id # ListLots(u, p)'[k].id
            /\ \A j \in 1..Len(ListLots(u, p)) :
                 \E k \in 1..Len(ListLots(u, p)') :
                   ListLots(u, p)'[k] = ListLots(u, p)[j]]_vars

\* C9's case: an add-lot on a ledger that held a lot with a usage event has
\* just succeeded; the listing holds the old lot, as it was, and the new one.
C9_Witness ==
    /\ last.kind = "addStock"
    /\ last.status = 200
    /\ LET lots == ListLots(last.userId, last.productId)
       IN  /\ Len(lots) = 2
           /\ lots[1].entry = <<3>> /\ lots[1].qty = 2
           /\ lots[2].qty = last.body.qty /\ lots[2].entry = <<>>

\* an entry that the catalog must not take: a field is missing, or the
\* measure is not in the enumeration of proSchema
C10_InvalidEntry(e) ==
    e.name = "" \/ e.description = "" \/ e.measure = "" \/ e.measure \notin SchemaMeasures

C10_InvalidBatch(q) ==
    /\ q.kind = "chat"
    /\ q.body.ai.intent = "add_product"
    /\ \E k \in 1..Len(q.body.ai.data) : C10_InvalidEntry(q.body.ai.data[k])

\* C10: an add-products batch in which at least one entry is invalid, at
\* whatever position, appends none of its entries: no step of the request
\* changes the Product collection.
C10_InvalidBatchAppendsNothing ==
    [][\A r \in Reqs :
         (/\ req'[r] # req[r]
          /\ C10_InvalidBatch(IF req'[r].pc = "done" THEN last' ELSE req'[r]))
         => products' = products]_vars

\* C10's case: a batch whose second entry has a measure that proSchema
\* does not have went through the handler's checks to the store, for a user
\* who has a catalog, and the request was answered with the catalog as it was.
C10_Witness ==
    /\ last.kind = "chat"
    /\ last.body.ai.intent = "add_product"
    /\ last.body.ai.data = <<ProductAsked, ProductLiter>>
    /\ last.userId = "u1"
    /\ last.reply = "Failed to add product. Please try again."
    /\ products = SeedProducts

\* the entries of the add-product request in flight in slot r: they passed
\* the handler's validation, or the request would not have reached the store
EntriesInFlight(r) ==
    IF req[r].kind = "addProduct" THEN <<req[r].body>> ELSE req[r].body.ai.data

\* C11 (as claimed): every add-product request whose entries all pass the
\* handler's validation succeeds and appends all of its entries to a catalog
\* of the user: the store rejects no entry that the handler accepted.
C11_AcceptedProductsAreAppended ==
    [][\A r \in Reqs :
         (/\ \/ InFlight(r, "addProduct")
             \/ InFlight(r, "chat") /\ req[r].body.ai.intent = "add_product"
          /\ Answers(r))
         => /\ last'.status \in {200, 201}
            /\ last'.reply \in {"Product added successfully",
                                "product(s) added successfully."}
            /\ \E i \in 1..Len(products') :
                 /\ products'[i].userId = req[r].userId
                 /\ LET old == IF i <= Len(products)
                               THEN products[i].allProducts ELSE <<>>
                    IN  products'[i].allProducts = old \o EntriesInFlight(r)]_vars

\* the request of slot r is answered by this step, at whatever point of its
\* handler
AnsweredNow(r) == req[r].pc # "done" /\ req'[r].pc = "done"

\* C12 (as claimed): an add-lot request whose qty is not a number > 0, or
\* whose expiryDate is not a day of the calendar written YYYY-MM-DD (a
\* string of that shape that names no day included), is answered with a 4xx
\* status, and creates or modifies no ledger.
C12_InvalidLotRejected ==
    [][\A r \in Reqs :
         (/\ AnsweredNow(r)
          /\ last'.kind = "addStock"
          /\ \/ last'.body.qty <= 0
             \/ ~IsCalendarDate(last'.body.expiryDate))
         => /\ last'.status \in 400..499
            /\ stocks' = stocks]_vars

\* C13 (as claimed): a consume request (with a usedQty > 0 and a lot id)
\* that names a (user, product) with no ledger, or a lot id that no ledger
\* of (user, product) holds, is answered with the not-found error by the
\* step that looks the ledger up, and changes no ledger.
C13_MissingLotNotFound ==
    [][\A r \in Reqs, u \in Users, p \in Products :
         LET q == IF req'[r].pc = "done" THEN last' ELSE req'[r]
         IN  (/\ req[r].pc = "idle" /\ req'[r].pc # "idle"
              /\ q.kind = "useStock"
              /\ q.userId = u /\ q.productId = p
              /\ q.body.usedQty > 0
              /\ q.body.stockId # 0
              /\ \A i \in StockDocsOf(u, p) :
                   \/ CastFails(q.body.stockId)
                   \/ ~HasLot(stocks[i], CastObjectId(q.body.stockId)))
             => /\ req'[r].pc = "done"
                /\ last'.status = 404
                /\ last'.reply \in {"Stock not found", "Stock item not found"}
                /\ stocks' = stocks]_vars

\* C13's case: a consume request named a (user, product) that has no
\* ledger, with the id of a lot that another ledger holds, and was answered
\* with the not-found error; the lot is as it was.
C13_Witness ==
    /\ last.kind = "useStock"
    /\ last.status = 404
    /\ last.body.usedQty > 0
    /\ StockDocsOf(last.userId, last.productId) = {}
    /\ \E x \in StoredLots :
         /\ LotOf(x).id = last.body.stockId
         /\ LotOf(x).qty = LotOf(x).orig
         /\ LotOf(x).entry = <<>>

\* C14: listing the products of a user with no catalog, and listing the
\* lots of a (user, product) with no ledger, each answer with a success
\* status and an empty sequence.
C14_NothingListsAsEmpty ==
    [][\A r \in Reqs, u \in Users, p \in Products :
         /\ (/\ AnsweredNow(r)
             /\ last'.kind = "getStock"
             /\ last'.userId = u /\ last'.productId = p
             /\ StockDocsOf(u, p) = {})
            => (last'.status = 200 /\ last'.body = <<>>)
         /\ (/\ AnsweredNow(r)
             /\ last'.kind = "getProducts"
             /\ last'.userId = u
             /\ ProductDocsOf(u) = {})
            => (last'.status = 200 /\ last'.body = <<>>)]_vars

\* C14's case: the lots of a (user, product) with no ledger were listed,
\* in a store that holds the ledger of another pair and no catalog of the
\* user, and the answer was the empty sequence.
C14_Witness ==
    /\ last.kind = "getStock"
    /\ last.status = 200
    /\ last.body = <<>>
    /\ StockDocsOf(last.userId, last.productId) = {}
    /\ ProductDocsOf(last.userId) = {}
    /\ stocks # <<>>

\* C15 (as claimed): list-all-stock for a user who has at least one ledger
\* answers with one (productId, lots) entry for every ledger of the user
\* (the ledgers the handler read), whether or not the user has a catalog.
C15_InstockListsEveryLedger ==
    [][\A r \in Reqs :
         (InFlight(r, "instock") /\ Answers(r))
         => /\ last'.status = 200
            /\ last'.body.stockWithProducts = req[r].snap.docs]_vars

\* the request of slot r as it is after this step: answered or in flight
RequestAfter(r) == IF req'[r].pc = "done" THEN last' ELSE req'[r]

\* the step at which the handler of slot r gets the generator's text
GetsText(r) == req[r].pc = "gen" /\ req'[r].pc # "gen" /\ RequestAfter(r).body.text # ""

\* C16: when no tier decodes the generator's text, or the text decodes to a
\* value without an intent, the chat request is answered at once, with a
\* status that is no error, with one of the fallback replies, and no
\* catalog or ledger document is created or modified.
C16_UndecodableTextFallsBack ==
    [][\A r \in Reqs :
         (/\ GetsText(r)
          /\ \/ RequestAfter(r).body.text \in {"empty", "nojson", "broken"}
             \/ ~RequestAfter(r).body.ai.isObject
             \/ RequestAfter(r).body.ai.intent = "")
         => /\ req'[r].pc = "done"
            /\ last'.status = 200
            /\ last'.reply \in {"I couldn't generate a response.",
                                "I had trouble understanding your request.",
                                "I had trouble processing your request."}
            /\ stocks' = stocks
            /\ products' = products]_vars

\* C16's case: a text with braces that neither the brace extraction nor the
\* repair makes JSON was answered with the fallback reply, the catalog as it
\* was.
C16_Witness ==
    /\ last.kind = "chat"
    /\ last.body.text = "broken"
    /\ last.status = 200
    /\ last.reply = "I had trouble understanding your request."
    /\ products = SeedProducts

\* C17 (as claimed): when the call of the generator fails, the chat request
\* is answered with a reply and a status that is no server error, and no
\* document is changed.
C17_GeneratorFailureIsNoServerError ==
    [][\A r \in Reqs :
         (/\ req[r].pc = "gen"
          /\ req'[r].pc = "done"
          /\ last'.body.text = "")
         => /\ last'.status \notin 500..599
            /\ last'.reply # ""
            /\ stocks' = stocks
            /\ products' = products]_vars

\* C18 (as claimed): every chat request eventually receives a response;
\* a request that waits for the generator does not wait forever.
C18_ChatEventuallyAnswered ==
    \A r \in Reqs : (req[r].pc = "gen") ~> (req[r].pc = "done")

\* C19: a chat request with no productId whose decoded intent is add_stock
\* is answered at once with the reply that sends the user to the product
\* page, and no ledger or catalog document is created or modified.
C19_AddStockWithoutProductRedirects ==
    [][\A r \in Reqs :
         (/\ GetsText(r)
          /\ RequestAfter(r).productId = ""
          /\ RequestAfter(r).body.ai.intent = "add_stock")
         => /\ req'[r].pc = "done"
            /\ last'.status = 200
            /\ last'.reply = "Please open the product page to add stock."
            /\ stocks' = stocks
            /\ products' = products]_vars

\* C19's case: an add_stock answer with a valid entry, given with a
\* trailing comma, for a request without productId: the user was sent to
\* the product page and the ledgers are as they were.
C19_Witness ==
    /\ last.kind = "chat"
    /\ last.productId = ""
    /\ last.body.text = "comma"
    /\ last.body.ai.intent = "add_stock"
    /\ last.body.ai.data = <<StockEntryAsked>>
    /\ last.reply = "Please open the product page to add stock."
    /\ stocks = SeedStocks

\* C20 (as claimed): a chat add_stock or add_product payload whose data
\* array is empty is answered as an invalid payload, and no step of its
\* request creates or modifies a ledger or a catalog.
C20_EmptyBatchRejected ==
    [][\A r \in Reqs :
         (/\ req'[r] # req[r]
          /\ RequestAfter(r).kind = "chat"
          /\ RequestAfter(r).body.ai.isArray
          /\ RequestAfter(r).body.ai.data = <<>>
          /\ \/ RequestAfter(r).body.ai.intent = "add_product"
             \/ /\ RequestAfter(r).body.ai.intent = "add_stock"
                /\ RequestAfter(r).productId # "")
         => /\ stocks' = stocks
            /\ products' = products
            /\ req'[r].pc = "done"
                 => last'.reply \in {"Invalid stock data format.",
                                     "Invalid product data format.",
                                     "I had trouble processing your request."}]_vars

\* the checks of the direct add-lot request on expiryDate and qty
\* (AddStockStart), applied to an entry
DirectAccepts(e) ==
    /\ ~(FalsyDate(e.expiryDate) \/ Falsy(e.qty))
    /\ ~QtyRejected(e.qty)
    /\ DateRegexTest(e.expiryDate)

\* the step of slot r is the write of a chat add_stock request
ChatStockWrites(r) ==
    /\ InFlight(r, "chat")
    /\ req[r].body.ai.intent = "add_stock"
    /\ Answers(r)

\* C21 (as claimed): every stock entry that the chat add_stock path writes
\* to a ledger would have been accepted by the direct add-lot request: its
\* expiryDate is present and written YYYY-MM-DD, its qty is a number > 0.
C21_ChatWritesWhatDirectAccepts ==
    [][\A r \in Reqs :
         (ChatStockWrites(r) /\ stocks' # stocks)
         => \A k \in 1..Len(req[r].body.ai.data) :
              DirectAccepts(req[r].body.ai.data[k])]_vars

\* the lots of document i that this step added: lots of a document that is
\* new, or lots behind the ones the document held
AddedLots(i) ==
    { k \in 1..Len(stocks'[i].stockDetail) :
        i > Len(stocks) \/ k > Len(stocks[i].stockDetail) }

\* C22 (as claimed): every lot, at the step that adds it (the direct add-lot
\* request or chat add_stock), has an identifier distinct from that of every
\* other lot of its ledger and an empty sequence of usage events: nothing
\* the generator wrote becomes a lot's identifier or its usage events.
C22_AddedLotIsFresh ==
    [][\A i \in 1..Len(stocks') : \A k \in AddedLots(i) :
         /\ stocks'[i].stockDetail[k].entry = <<>>
         /\ \A j \in 1..Len(stocks'[i].stockDetail) :
              j # k => stocks'[i].stockDetail[j].id # stocks'[i].stockDetail[k].id]_vars

\* a stock entry as the add-lot contract wants it: what the direct request
\* accepts, with a date that is a day of the calendar
ValidStockEntry(e) == DirectAccepts(e) /\ IsCalendarDate(e.expiryDate)

FirstInvalidStock(es) ==
    LET S == { k \in 1..Len(es) : ~ValidStockEntry(es[k]) }
    IN  IF S = {} THEN 0 ELSE Min(S)

\* the request of slot r, as it is after this step, is a chat request with
\* a productId that was answered with an add_stock batch
IsStockBatch(q) ==
    /\ q.kind = "chat"
    /\ q.productId # ""
    /\ q.body.ai.intent = "add_stock"
    /\ q.body.ai.isArray

\* C23 (as claimed): a chat add_stock batch is all-or-nothing.  If an entry
\* of the batch is invalid, no step of the request changes a ledger and the
\* request is answered with the one message that names the failing entry;
\* if all entries are valid, the write adds all of them, in order, to the
\* one ledger of (userId, productId).
C23_StockBatchAllOrNothing ==
    [][\A r \in Reqs, u \in Users, p \in Products :
         (/\ req'[r] # req[r]
          /\ IsStockBatch(RequestAfter(r))
          /\ RequestAfter(r).userId = u /\ RequestAfter(r).productId = p)
         => LET es == RequestAfter(r).body.ai.data
                bad == FirstInvalidStock(es)
            IN  /\ bad # 0 =>
                     /\ stocks' = stocks
                     /\ req'[r].pc = "done" =>
                          (last'.reply = "Stock entry is invalid" /\ last'.n = bad)
                /\ (bad = 0 /\ ChatStockWrites(r)) =>
                     /\ Cardinality(StockDocsOf(u, p)') = 1
                     /\ Len(ListLots(u, p)') = Len(ListLots(u, p)) + Len(es)
                     /\ IsPrefix(ListLots(u, p), ListLots(u, p)')
                     /\ \A k \in 1..Len(es) :
                          ListLots(u, p)'[Len(ListLots(u, p)) + k].qty = es[k].qty]_vars

\* the intents the handler knows
KnownIntents == {"add_stock", "add_product", "chat"}

\* the replies that say that the text gave no request
FallbackReplies ==
    {"I couldn't generate a response.",
     "I had trouble understanding your request.",
     "I had trouble processing your request.",
     "I didn't understand your request."}

\* C24: the decode tiers run in the order as-is, brace extraction, repair,
\* and a later tier runs only when the earlier ones failed: a text that is
\* JSON as it is (between fences or not) is decoded by the first tier, JSON
\* inside prose by the second, an object with a trailing comma or with
\* single quotes by the third, and no tier decodes the other texts.  When a
\* tier gave an object with an intent the handler knows, the request is
\* dispatched on that intent: it is not answered with a reply that says the
\* text was not understood.
C24_TiersInOrderThenDispatch ==
    [][\A r \in Reqs :
         GetsText(r)
         => LET q == RequestAfter(r)
            IN  /\ q.body.tier = 1 <=> q.body.text \in {"json", "fenced", "scalar"}
                /\ q.body.tier = 2 <=> q.body.text = "prose"
                /\ q.body.tier = 3 <=> q.body.text \in {"comma", "quotes"}
                /\ q.body.tier = 0 <=>
                     q.body.text \in {"empty", "broken", "nojson", "apostrophe"}
                /\ q.body.text \in {"json", "fenced", "prose", "comma", "quotes"}
                     => q.body.tier # 0
                /\ (q.body.tier # 0 /\ q.body.ai.isObject
                      /\ q.body.ai.intent \in KnownIntents)
                     => (req'[r].pc = "done" => last'.reply \notin FallbackReplies)
                /\ (q.body.tier # 0 /\ q.body.ai.intent = "chat")
                     => (req'[r].pc = "done" /\ last'.reply = "aiData.reply")]_vars

\* C24's case: an add_stock answer whose only defect is a trailing comma
\* was decoded by the repair tier, dispatched and written: the ledger has
\* the lot.
C24_Witness ==
    /\ last.kind = "chat"
    /\ last.body.text = "comma"
    /\ last.body.tier = 3
    /\ last.body.ai.intent = "add_stock"
    /\ last.reply = "stock entry(ies) added successfully."
    /\ Len(ListLots(last.userId, last.productId)) = 2

\* the replies of the catch blocks around the store operations
StoreFailureReplies ==
    {"Failed to add stock", "Failed to use stock", "Failed to add product",
     "Failed to add stock. Please try again.",
     "Failed to add product. Please try again."}

\* C25 (as claimed): a store failure during any mutation (add product, add
\* lot, consume, chat add_stock, chat add_product) ends the request, which
\* does not call the store again, is answered with status 500, and leaves
\* the catalogs and ledgers as they were.
C25_StoreFailureIs500 ==
    [][\A r \in Reqs :
         (AnsweredNow(r) /\ last'.reply \in StoreFailureReplies)
         => /\ last'.status = 500
            /\ stocks' = stocks
            /\ products' = products]_vars

\* C26: the usage events of a lot are only ever appended to.  At every
\* step, every lot of every ledger is after the step where it was, and its
\* usage events before the step are a prefix of its usage events after it:
\* no event is changed, moved or removed, however consume requests
\* interleave.
C26_UsageEventsAppendOnly ==
    [][\A x \in StoredLots :
         /\ x[1] <= Len(stocks')
         /\ x[2] <= Len(stocks'[x[1]].stockDetail)
         /\ stocks'[x[1]].stockDetail[x[2]].id = LotOf(x).id
         /\ IsPrefix(LotOf(x).entry, stocks'[x[1]].stockDetail[x[2]].entry)]_vars

\* C26's case: two consume requests that were in flight together on one
\* lot; the first saved its event, and the second, which had read the lot
\* without that event, was answered with the event still there.
C26_Witness ==
    /\ last.kind = "useStock"
    /\ last.status = 500
    /\ \E x \in StoredLots :
         /\ LotOf(x).id = last.body.stockId
         /\ LotOf(x).entry = <<2, 3>>
         /\ LotOf(x).qty = 2

\* C27: once a lot exists its qty never increases.  At every step, every
\* lot of every ledger is after the step where it was, with a qty that is
\* less than or equal to its qty before the step, also when consume
\* requests on the same lot interleave.
C27_QtyNeverIncreases ==
    [][\A x \in StoredLots :
         /\ x[1] <= Len(stocks')
         /\ x[2] <= Len(stocks'[x[1]].stockDetail)
         /\ stocks'[x[1]].stockDetail[x[2]].qty <= LotOf(x).qty]_vars

\* C27's case: two consume requests read the same lot with qty 5; one used
\* all 5, and the other, for 3, was then answered without the lot's qty
\* going back up from 0.
C27_Witness ==
    /\ last.kind = "useStock"
    /\ last.body.usedQty = 3
    /\ last.status = 500
    /\ \E x \in StoredLots :
         /\ LotOf(x).id = last.body.stockId
         /\ LotOf(x).qty = 0
         /\ LotOf(x).entry = <<2, 5>>

\* C28: no operation removes a lot from a ledger.  At every step, every
\* ledger document is after the step where it was, for the same (user,
\* product) and with at least the lots it had; and for every (user,
\* product), every lot of the lot listing before the step is in the listing
\* after it, at the same place and with the same id.  This includes the
\* lots whose qty is 0.
C28_LotsStayListed ==
    [][/\ \A i \in 1..Len(stocks) :
            /\ i <= Len(stocks')
            /\ stocks'[i].userId = stocks[i].userId
            /\ stocks'[i].productId = stocks[i].productId
            /\ Len(stocks'[i].stockDetail) >= Len(stocks[i].stockDetail)
       /\ \A u \in Users, p \in Products :
            /\ Len(ListLots(u, p)') >= Len(ListLots(u, p))
            /\ \A k \in 1..Len(ListLots(u, p)) :
                 ListLots(u, p)'[k].id = ListLots(u, p)[k].id]_vars

\* C28's case: a lot was used up to qty 0, and a lot was then added to its
\* ledger: the listing holds the depleted lot, with its events, and the new one.
C28_Witness ==
    /\ last.kind = "addStock"
    /\ last.status = 200
    /\ LET lots == ListLots(last.userId, last.productId)
       IN  /\ Len(lots) = 2
           /\ lots[1].qty = 0
           /\ lots[1].entry = <<5>>
           /\ lots[2].qty = 5

\* the documents that are not after this step what they were before it
ChangedStocks == { i \in 1..Len(stocks') : i > Len(stocks) \/ stocks'[i] # stocks[i] }
ChangedProducts ==
    { i \in 1..Len(products') : i > Len(products) \/ products'[i] # products[i] }

\* C29: adding stock, by the direct add-lot request or by chat add_stock,
\* changes only ledger documents of the request's (userId, productId): the
\* Product collection and every ledger of another pair are after each step
\* of the request what they were before it.  And no chat request changes
\* more than one document: only the step that answers it writes, and it
\* writes to one document of one collection.
C29_AddStockTouchesOneLedger ==
    [][\A r \in Reqs :
         LET q == RequestAfter(r)
         IN  /\ (/\ req'[r] # req[r]
                  /\ \/ q.kind = "addStock"
                     \/ q.kind = "chat" /\ q.body.ai.intent = "add_stock")
                 => /\ products' = products
                    /\ Len(stocks') >= Len(stocks)
                    /\ \A i \in ChangedStocks :
                         /\ stocks'[i].userId = q.userId
                         /\ stocks'[i].productId = q.productId
             /\ (req'[r] # req[r] /\ q.kind = "chat")
                 => /\ Cardinality(ChangedStocks) + Cardinality(ChangedProducts) <= 1
                    /\ req'[r].pc # "done" =>
                         (stocks' = stocks /\ products' = products)]_vars

\* C29's case: a chat add_stock for ("u1", "p2") was written next to the
\* ledger of ("u1", "p1"): that ledger and the catalog of "u1" are what
\* they were, and the new lot is in a ledger of ("u1", "p2").
C29_Witness ==
    /\ last.kind = "chat"
    /\ last.body.ai.intent = "add_stock"
    /\ last.userId = "u1" /\ last.productId = "p2"
    /\ last.reply = "stock entry(ies) added successfully."
    /\ Len(stocks) = 2
    /\ stocks[1] = SeedStocks[1]
    /\ stocks[2].productId = "p2" /\ Len(stocks[2].stockDetail) = 1
    /\ products = SeedProducts

\* C30: a chat request whose decoded intent is chat is answered with the
\* reply of the payload, and one whose decoded intent is none of the
\* intents the handler knows is answered with the fixed message that the
\* request was not understood; either is answered by the step that decodes
\* the text, with a status that is no error, and no catalog or ledger
\* document is created or modified.
C30_ChatAndUnknownOnlyReply ==
    [][\A r \in Reqs :
         LET q == RequestAfter(r)
         IN  (/\ GetsText(r)
              /\ q.body.tier # 0
              /\ q.body.ai.isObject
              /\ q.body.ai.intent # ""
              /\ q.body.ai.intent \notin {"add_stock", "add_product"})
             => /\ req'[r].pc = "done"
                /\ last'.status = 200
                /\ last'.reply = IF q.body.ai.intent = "chat"
                                 THEN "aiData.reply"
                                 ELSE "I didn't understand your request."
                /\ stocks' = stocks
                /\ products' = products]_vars

\* C30's case: the generator answered a request for product "p1" with the
\* intent chat; the request was answered with the payload's reply and the
\* ledgers and catalogs are what they were.
C30_Witness ==
    /\ last.kind = "chat"
    /\ last.productId = "p1"
    /\ last.body.text = "json"
    /\ last.body.ai.intent = "chat"
    /\ last.status = 200
    /\ last.reply = "aiData.reply"
    /\ stocks = SeedStocks
    /\ products = SeedProducts

\* the entries that the add-lot request in flight in slot r is about to write
LotsInFlight(r) ==
    IF req[r].kind = "addStock"
    THEN <<[expiryDate |-> req[r].body.expiryDate, qty |-> req[r].body.qty,
            entry |-> <<>>, id |-> 0]>>
    ELSE req[r].body.ai.data

\* C31: add-lot requests (direct, or chat add_stock) that run concurrently
\* against a ledger that exists all succeed and all their lots are in the
\* ledger afterwards.  At the step at which such a request saves, whatever
\* was written to the ledger since the request read it, the request is
\* answered with success and the ledger holds every lot it held before the
\* step, unchanged, with the lots of the request behind them.
C31_ConcurrentAddsKeepBothLots ==
    [][\A r \in Reqs :
         (/\ \/ InFlight(r, "addStock")
             \/ InFlight(r, "chat") /\ req[r].body.ai.intent = "add_stock"
          /\ Answers(r)
          /\ req[r].snap.at # 0
          /\ LotsValid(LotsInFlight(r)))
         => LET at == req[r].snap.at
                es == LotsInFlight(r)
            IN  /\ last'.status = 200
                /\ last'.reply \in {"Stock added successfully",
                                    "stock entry(ies) added successfully."}
                /\ Len(stocks') = Len(stocks)
                /\ Len(stocks'[at].stockDetail) = Len(stocks[at].stockDetail) + Len(es)
                /\ IsPrefix(stocks[at].stockDetail, stocks'[at].stockDetail)
                /\ \A k \in 1..Len(es) :
                     stocks'[at].stockDetail[Len(stocks[at].stockDetail) + k].qty
                       = es[k].qty]_vars

\* C31's case: two add-lot requests read the ledger with its one lot; the
\* first has saved and was answered with success, and the second, still
\* holding what it read, is about to save to the ledger that now has two lots.
C31_Witness ==
    /\ last.kind = "addStock"
    /\ last.status = 200
    /\ \E r \in Reqs :
         /\ InFlight(r, "addStock")
         /\ req[r].snap.at # 0
         /\ req[r].userId = last.userId /\ req[r].productId = last.productId
         /\ Len(req[r].snap.doc.stockDetail) = 1
         /\ Len(stocks[req[r].snap.at].stockDetail) = 2

\* the lots and the ledgers (productId, lots) of the documents of user u
LotsOfUser(u) == { stocks[i].stockDetail : i \in { j \in 1..Len(stocks) : stocks[j].userId = u } }
LedgersOfUser(u) ==
    { [productId |-> stocks[i].productId, stockDetail |-> stocks[i].stockDetail] :
        i \in { j \in 1..Len(stocks) : stocks[j].userId = u } }
CatalogsOfUser(u) ==
    { products[i].allProducts : i \in { j \in 1..Len(products) : products[j].userId = u } }

\* C32: user isolation.  At every step of a request issued with user
\* identifier A, every document that the step creates or changes has
\* userId A, no document is removed, and what the step reads to return
\* (the lots of a listing, the ledgers of list-all-stock, the products) is
\* taken from documents whose userId is A: the documents of every other
\* user are after the step what they were before it.
C32_UserIsolation ==
    [][\A r \in Reqs :
         req'[r] # req[r]
         => LET q == RequestAfter(r)
            IN  /\ Len(stocks') >= Len(stocks)
                /\ Len(products') >= Len(products)
                /\ \A i \in ChangedStocks : stocks'[i].userId = q.userId
                /\ \A i \in ChangedProducts : products'[i].userId = q.userId
                /\ (req'[r].pc = "done" /\ q.kind = "getStock" /\ q.body # <<>>)
                     => q.body \in LotsOfUser(q.userId)
                /\ (req'[r].pc = "done" /\ q.kind = "getProducts" /\ q.body # <<>>)
                     => q.body \in CatalogsOfUser(q.userId)
                /\ (req[r].pc = "idle" /\ req'[r].pc = "found" /\ q.kind = "instock")
                     => \A k \in 1..Len(q.snap.docs) :
                          q.snap.docs[k] \in LedgersOfUser(q.userId)
                /\ (req[r].pc = "found" /\ q.kind = "instock" /\ q.status = 200)
                     => /\ q.body.stockWithProducts \in {<<>>, req[r].snap.docs}
                        /\ q.reply = "Stock found"
                             => q.body.products \in CatalogsOfUser(q.userId)
                /\ (req[r].pc = "idle" /\ req'[r].pc = "found"
                      /\ q.kind \in {"addStock", "useStock"})
                     => q.snap.at = 0 \/ q.snap.doc.userId = q.userId
                /\ (req[r].pc = "idle" /\ req'[r].pc = "found" /\ q.kind = "addProduct")
                     => q.snap.at = 0 \/ q.snap.doc.userId = q.userId]_vars

\* C32's case: user "u2" added a product by chat next to the catalog and
\* the ledger of "u1": the product is in a catalog of "u2", and the
\* documents of "u1" are what they were.
C32_Witness ==
    /\ last.kind = "chat"
    /\ last.userId = "u2"
    /\ last.body.ai.intent = "add_product"
    /\ last.reply = "product(s) added successfully."
    /\ Len(products) = 2
    /\ products[1] = SeedProducts[1]
    /\ products[2].userId = "u2"
    /\ stocks = SeedStocks

=============================================================================
